---- MODULE Spec2Model ----
(***************************************************************************)
(* Progress Library Tracker (main.py): the entry collection, its JSON      *)
(* database, the per-entry asset directories, the cover extraction         *)
(* pipeline and the tag/type filters of MainWindow.                        *)
(*                                                                         *)
(* Strings the code inspects (file paths, entry names) are sequences of    *)
(* one-character strings, so that lower(), endswith() and replace() are    *)
(* computed.  folder_id "PRJ<n>" is represented by the number n.           *)
(*                                                                         *)
(* The handlers are Qt slots.  An exception that leaves a slot is not      *)
(* caught anywhere in main.py: PyQt5 then ends the process (qFatal).  The  *)
(* model records it in pc = "crashed" and result = the raising call; main  *)
(* starts the program again from what is on disk.                          *)
(***************************************************************************)
EXTENDS Integers, Sequences, FiniteSets, TLC

VARIABLES
    data,                 \* MainWindow.data: list of entry dicts
    db,                   \* the file DATABASE_FILE
    dirs,                 \* ENTRIES_DIR: folder_id -> whether its directory exists, and its files
    fs,                   \* the user's files outside ENTRIES_DIR: path -> content
    current_tag,          \* MainWindow.current_tag
    current_amount_type,  \* MainWindow.current_amount_type
    excluded_tags,        \* MainWindow.excluded_tags
    view,                 \* the Entry objects the grid's widgets hold, in display order
    pc,                   \* "idle" | "alloc" | "rm_save" | "rm_tree" | "crashed"
    folder_id,            \* the folder_id local of the running (or last ended) handler
    result                \* "running", or how the last handler ended: "ok", "no_cover" or
                          \* <handler>.<the call that raised>

vars == <<data, db, dirs, fs, current_tag, current_amount_type, excluded_tags,
          view, pc, folder_id, result>>

(***************************************************************************)
(* Bounds of the model.                                                    *)
(***************************************************************************)
\* random.randint(1, 10000) draws from 1..NumIds
NumIds == 2
\* the largest total amount a user enters
MaxAmount == 2

Ids == 1..NumIds

(***************************************************************************)
(* Strings.                                                                *)
(***************************************************************************)
S_pdf == <<".", "p", "d", "f">>
S_epub == <<".", "e", "p", "u", "b">>
S_image_jpg == <<"i", "m", "a", "g", "e", ".", "j", "p", "g">>

\* str.lower() on one character (the characters the model's paths use)
LowerChar(c) ==
    CASE c = "B" -> "b"
      [] c = "E" -> "e"
      [] c = "P" -> "p"
      [] c = "U" -> "u"
      [] OTHER -> c

\* str.lower()
Lower(s) == [i \in 1..Len(s) |-> LowerChar(s[i])]

\* str.endswith(suffix)
EndsWith(s, suffix) ==
    /\ Len(s) >= Len(suffix)
    /\ SubSeq(s, Len(s) - Len(suffix) + 1, Len(s)) = suffix

\* whether old occurs in s at position i
OccursAt(s, old, i) ==
    /\ i + Len(old) - 1 <= Len(s)
    /\ SubSeq(s, i, i + Len(old) - 1) = old

\* str.replace(old, new): every non-overlapping occurrence, left to right
RECURSIVE ReplaceFrom(_, _, _, _)
ReplaceFrom(s, old, new, i) ==
    IF i > Len(s) THEN <<>>
    ELSE IF OccursAt(s, old, i)
         THEN new \o ReplaceFrom(s, old, new, i + Len(old))
         ELSE <<s[i]>> \o ReplaceFrom(s, old, new, i + 1)

Replace(s, old, new) == ReplaceFrom(s, old, new, 1)

\* code point order of the characters entry names use
CharCode(c) ==
    CASE c = "A" -> 65
      [] c = "B" -> 66
      [] c = "a" -> 97
      [] OTHER -> 98

\* Python's str < str
RECURSIVE StrLess(_, _)
StrLess(s, t) ==
    IF t = <<>> THEN FALSE
    ELSE IF s = <<>> THEN TRUE
    ELSE IF s[1] = t[1] THEN StrLess(Tail(s), Tail(t))
    ELSE CharCode(s[1]) < CharCode(t[1])

(***************************************************************************)
(* Disk.                                                                   *)
(***************************************************************************)
\* a directory of ENTRIES_DIR that does not exist, and one holding the files fl
NoDir == [exists |-> FALSE, files |-> {}]
Dir(fl) == [exists |-> TRUE, files |-> fl]

\* the user's files the model knows, all in one directory
File_pdf == <<"b">> \o S_pdf
File_epub == <<"b">> \o S_epub
File_EPUB == <<"b", ".", "E", "P", "U", "B">>
File_txt == <<"b", ".", "t", "x", "t">>
UserFiles == {File_pdf, File_epub, File_EPUB, File_txt}
UserFolder == <<"d">>
UserImage == <<"c", ".", "j", "p", "g">>

\* os.path.abspath(os.path.join(ENTRIES_DIR, folder_id, os.path.basename(file_path)))
AssetPath(id, base) == [root |-> "entries", id |-> id, base |-> base]
\* os.path.abspath(file_path) of a path outside ENTRIES_DIR
UserPath(p) == [root |-> "user", id |-> 0, base |-> p]

\* load_data(): the list in the file; [] when the file is missing or does not parse
load_data == IF db.kind = "json" THEN db.content ELSE <<>>

\* save_data(d) with its outcome: "ok"; "open" = open(..., 'w') raises and the file
\* is untouched; "write" = json.dump raises after open() truncated the file
save_data(d, mode) ==
    CASE mode = "ok" -> [kind |-> "json", content |-> d]
      [] mode = "open" -> db
      [] OTHER -> [kind |-> "corrupt", content |-> <<>>]

SaveModes == {"ok", "open", "write"}

(***************************************************************************)
(* Entries and the grid.                                                   *)
(***************************************************************************)
\* the dict add_entry builds (lines 431-439)
new_entry(name, amount, amount_type, tag_task, id, path) ==
    [name |-> name, amount |-> amount, amount_type |-> amount_type,
     amount_done |-> 0, tag_task |-> tag_task, folder_id |-> id, file_path |-> path]

\* any(entry['folder_id'] == id for entry in d)
id_in_use(d, id) == \E i \in 1..Len(d) : d[i].folder_id = id

\* Entry.completion_percentage as a fraction num/den (den > 0)
PctNum(e) == IF e.amount > 0 THEN e.amount_done ELSE 0
PctDen(e) == IF e.amount > 0 THEN e.amount ELSE 1

\* the sort key (-completion_percentage, name) of a is smaller than that of b
key_less(a, b) ==
    \/ PctNum(a) * PctDen(b) > PctNum(b) * PctDen(a)
    \/ /\ PctNum(a) * PctDen(b) = PctNum(b) * PctDen(a)
       /\ StrLess(a.name, b.name)

\* sorted(): stable, so e goes behind every element whose key is not larger
RECURSIVE insert_sorted(_, _)
insert_sorted(s, e) ==
    IF s = <<>> THEN <<e>>
    ELSE IF key_less(e, s[1]) THEN <<e>> \o s
    ELSE <<s[1]>> \o insert_sorted(Tail(s), e)

RECURSIVE sorted_entries(_)
sorted_entries(s) ==
    IF s = <<>> THEN <<>>
    ELSE insert_sorted(sorted_entries(SubSeq(s, 1, Len(s) - 1)), s[Len(s)])

\* the condition of refresh_ui's loop (lines 271-273)
passes_filter(e, tag, atype, excl) ==
    /\ (tag = "All" \/ e.tag_task = tag)
    /\ (atype = "All" \/ e.amount_type = atype)
    /\ (tag = "leisure" \/ atype # "All" \/ e.tag_task \notin excl)

\* refresh_ui(): the filtered entries in display order
refresh_ui(d, tag, atype, excl) ==
    sorted_entries(SelectSeq(d, LAMBDA e : passes_filter(e, tag, atype, excl)))

\* get_all_tags() / get_all_types(), as the set of button labels of a sidebar
\* opened on the present list
get_all_tags == {"All"} \cup {data[i].tag_task : i \in 1..Len(data)}
get_all_types == {"All"} \cup {data[i].amount_type : i \in 1..Len(data)}

(***************************************************************************)
(* Cover extraction.  Each returns what it changed on disk besides its     *)
(* value; raised = an exception leaves the function.                       *)
(***************************************************************************)
\* convert_epub_to_pdf: conv is what subprocess.run does -- "ok" (the tool wrote
\* pdf_path), "nonzero" (CalledProcessError, caught), "missing" (the tool cannot
\* be started: FileNotFoundError, which the except clause does not name)
convert_epub_to_pdf(f, pdf_path, conv) ==
    CASE conv = "ok" -> [fs |-> [f EXCEPT ![pdf_path] = "converted"], raised |-> FALSE]
      [] conv = "nonzero" -> [fs |-> f, raised |-> FALSE]
      [] OTHER -> [fs |-> f, raised |-> TRUE]

\* extract_pdf_cover: an image when the file is there and fitz renders its page 0;
\* every exception is caught
extract_pdf_cover(f, pdf_path, render) == f[pdf_path] # "absent" /\ render

\* extract_cover_image (lines 52-69)
extract_cover_image(f, file_path, env) ==
    LET file_path_lower == Lower(file_path) IN
    IF EndsWith(file_path_lower, S_pdf)
    THEN [image |-> extract_pdf_cover(f, file_path, env.render), fs |-> f, raised |-> FALSE]
    ELSE IF EndsWith(file_path_lower, S_epub)
    THEN LET pdf_path == Replace(file_path, S_epub, S_pdf)
             conv == convert_epub_to_pdf(f, pdf_path, env.conv)
             cover_image == extract_pdf_cover(conv.fs, pdf_path, env.render)
             \* os.remove(pdf_path); OSError is caught
             removed == IF conv.fs[pdf_path] # "absent" /\ env.rm_ok
                        THEN [conv.fs EXCEPT ![pdf_path] = "absent"]
                        ELSE conv.fs
         IN IF conv.raised
            THEN [image |-> FALSE, fs |-> conv.fs, raised |-> TRUE]
            ELSE [image |-> cover_image, fs |-> removed, raised |-> FALSE]
    ELSE [image |-> FALSE, fs |-> f, raised |-> FALSE]

(***************************************************************************)
(* State after construction: MainWindow.__init__ on a fresh installation.  *)
(***************************************************************************)
Init ==
    /\ db = [kind |-> "absent", content |-> <<>>]
    /\ data = <<>>
    /\ dirs = [i \in Ids |-> NoDir]
    /\ fs = [p \in UserFiles |-> "orig"]
    /\ current_tag = "All"
    /\ current_amount_type = "All"
    /\ excluded_tags = {"leisure"}
    /\ view = <<>>
    /\ pc = "idle"
    /\ folder_id = 0
    /\ result = "ok"

\* an unhandled exception in a slot: the process ends where it stands
raise(call) == pc' = "crashed" /\ result' = call

\* a handler returns to the event loop
return(how) == pc' = "idle" /\ result' = how

filters == <<current_tag, current_amount_type, excluded_tags>>
disk == <<db, dirs, fs>>

(***************************************************************************)
(* add_entry (lines 357-442).                                              *)
(***************************************************************************)
\* the early returns of the dialogs (lines 361-393); inp.ok = no dialog was cancelled
input_accepted(inp) ==
    /\ inp.ok
    /\ inp.name # <<>>
    /\ inp.amount > 0
    /\ inp.tag_task # ""
    /\ inp.amount_type # ""
    /\ inp.file_path # <<>>
    \* the file dialog offers existing files
    /\ inp.choice = "File" => (inp.file_path \in DOMAIN fs /\ fs[inp.file_path] # "absent")

\* lines 361-395: the dialogs, then the first random candidate
add_entry_begin(inp, candidate) ==
    /\ pc = "idle"
    /\ IF input_accepted(inp)
       THEN /\ pc' = "alloc"
            /\ folder_id' = candidate
            /\ result' = "running"
       ELSE /\ return("ok")
            /\ folder_id' = 0
    /\ UNCHANGED <<data, disk, filters, view>>

\* add_entry_retry without the new draw: the loop tests the same candidate again
add_entry_retry_same(candidate) ==
    /\ pc = "alloc"
    /\ id_in_use(data, folder_id)
    /\ UNCHANGED vars

\* lines 396-397: the candidate collides, draw again
add_entry_retry(candidate) ==
    /\ pc = "alloc"
    /\ id_in_use(data, folder_id)
    /\ folder_id' = candidate
    /\ UNCHANGED <<data, disk, filters, view, pc, result>>

\* alloc_done without the loop: the first candidate is taken
alloc_done_unchecked == TRUE

\* the while condition of line 396 is false: the loop ends
alloc_done == ~ id_in_use(data, folder_id)

\* os.rmdir: removes an empty directory, raises OSError on any other
rmdir(d, id) == IF d[id] = Dir({}) THEN [dirs |-> [d EXCEPT ![id] = NoDir], raised |-> FALSE]
                ELSE [dirs |-> d, raised |-> TRUE]

\* lines 398-442 with the dialog answers inp and what the environment does (env):
\* the state the handler leaves and how it ended
add_entry_body(inp, env) ==
    LET id == folder_id
        \* os.makedirs(..., exist_ok=True)
        d0 == [dirs EXCEPT ![id] = Dir(dirs[id].files)]
        isfile == inp.choice = "File"
        ex == IF isfile THEN extract_cover_image(fs, inp.file_path, env)
              ELSE [image |-> FALSE, fs |-> fs, raised |-> FALSE]
        \* the image written as image.jpg: the extracted cover, else the chosen one
        have_image == ex.image \/ env.img_path # <<>>
        d1 == [d0 EXCEPT ![id] = Dir(d0[id].files \cup {S_image_jpg})]
        d2 == IF isfile THEN [d1 EXCEPT ![id] = Dir(d1[id].files \cup {inp.file_path})] ELSE d1
        path == IF isfile THEN AssetPath(id, inp.file_path) ELSE UserPath(inp.file_path)
        appended == Append(data, new_entry(inp.name, inp.amount, inp.amount_type,
                                           inp.tag_task, id, path))
        out(how, d, f, dt, b) == [how |-> how, dirs |-> d, fs |-> f, data |-> dt, db |-> b]
    IN  IF ex.raised THEN out("add_entry.extract_cover_image", d0, ex.fs, data, db)
        ELSE IF ~ have_image
        THEN LET r == rmdir(d0, id)
             IN IF r.raised THEN out("add_entry.rmdir", r.dirs, ex.fs, data, db)
                ELSE out("no_cover", r.dirs, ex.fs, data, db)
        ELSE IF env.fault = "write_cover" THEN out("add_entry.write_cover", d0, ex.fs, data, db)
        ELSE IF isfile /\ (ex.fs[inp.file_path] = "absent" \/ env.fault = "copy")
        THEN out("add_entry.copy", d1, ex.fs, data, db)
        ELSE IF env.fault \in {"open", "write"}
        THEN out("add_entry.save_data", d2, ex.fs, appended, save_data(appended, env.fault))
        ELSE out("ok", d2, ex.fs, appended, save_data(appended, "ok"))

\* The dialog answers are locals the loop of lines 396-397 neither reads nor
\* writes; they are drawn here, where the handler first uses them, under the
\* conditions that let it pass the early returns.
add_entry_finish(inp, env) ==
    /\ pc = "alloc"
    /\ alloc_done
    /\ input_accepted(inp)
    /\ LET o == add_entry_body(inp, env)
       IN /\ dirs' = o.dirs
          /\ fs' = o.fs
          /\ data' = o.data
          /\ db' = o.db
          /\ IF o.how = "ok"
             THEN /\ return("ok")
                  /\ folder_id' = 0
                  /\ view' = refresh_ui(o.data, current_tag, current_amount_type, excluded_tags)
             ELSE IF o.how = "no_cover"
             THEN /\ return("no_cover")
                  /\ UNCHANGED <<folder_id, view>>
             ELSE /\ raise(o.how)
                  /\ UNCHANGED <<folder_id, view>>
    /\ UNCHANGED filters

(***************************************************************************)
(* update_progress (lines 444-460): entry is the Entry object of a widget. *)
(***************************************************************************)
\* lines 454-457: the first dict with the entry's folder_id gets value added
add_done(d, id, value) ==
    IF ~ id_in_use(d, id) THEN d
    ELSE LET k == CHOOSE i \in 1..Len(d) :
                      /\ d[i].folder_id = id
                      /\ \A j \in 1..(i - 1) : d[j].folder_id # id
         IN [d EXCEPT ![k].amount_done = d[k].amount_done + value]

\* update_rejected without the upper limit
update_rejected_nomax(entry, value, ok) == ~ ok \/ value <= 0

\* line 451: the early return
update_rejected(entry, value, ok) ==
    LET remaining == entry.amount - entry.amount_done
    IN ~ ok \/ value <= 0 \/ value > remaining

update_progress(entry, value, ok, mode) ==
    /\ pc = "idle"
    /\ \E i \in 1..Len(view) : view[i] = entry
    /\ folder_id' = 0
    /\ IF update_rejected(entry, value, ok)
       THEN /\ return("ok")
            /\ UNCHANGED <<data, db, view>>
       ELSE LET d == add_done(data, entry.folder_id, value)
            IN /\ data' = d
               /\ db' = save_data(d, mode)
               /\ IF mode = "ok"
                  THEN /\ return("ok")
                       /\ view' = refresh_ui(d, current_tag, current_amount_type, excluded_tags)
                  ELSE /\ raise("update_progress.save_data")
                       /\ UNCHANGED view
    /\ UNCHANGED <<dirs, fs, filters>>

(***************************************************************************)
(* remove_entry (lines 462-474), one action per statement of its body.     *)
(***************************************************************************)
\* remove_entry deleting the directory first, before the list is saved
remove_entry_rmtree_first(entry, reply) ==
    /\ pc = "idle"
    /\ \E i \in 1..Len(view) : view[i] = entry
    /\ IF reply = "Yes"
       THEN /\ data' = SelectSeq(data, LAMBDA e : e.folder_id # entry.folder_id)
            /\ dirs' = [dirs EXCEPT ![entry.folder_id] = NoDir]
            /\ pc' = "rm_save"
            /\ folder_id' = entry.folder_id
            /\ result' = "running"
       ELSE /\ return("ok")
            /\ folder_id' = 0
            /\ UNCHANGED <<data, dirs>>
    /\ UNCHANGED <<db, fs, filters, view>>

\* lines 466-471: the question, then the list without the entry
remove_entry(entry, reply) ==
    /\ pc = "idle"
    /\ \E i \in 1..Len(view) : view[i] = entry
    /\ IF reply = "Yes"
       THEN /\ data' = SelectSeq(data, LAMBDA e : e.folder_id # entry.folder_id)
            /\ pc' = "rm_save"
            /\ folder_id' = entry.folder_id
            /\ result' = "running"
       ELSE /\ return("ok")
            /\ folder_id' = 0
            /\ UNCHANGED data
    /\ UNCHANGED <<disk, filters, view>>

\* remove_entry_save without the call of save_data
remove_entry_save_skipped(mode) ==
    /\ pc = "rm_save"
    /\ pc' = "rm_tree"
    /\ UNCHANGED <<data, disk, filters, view, folder_id, result>>

\* line 472
remove_entry_save(mode) ==
    /\ pc = "rm_save"
    /\ db' = save_data(data, mode)
    /\ IF mode = "ok"
       THEN pc' = "rm_tree" /\ UNCHANGED result
       ELSE raise("remove_entry.save_data")
    /\ UNCHANGED <<data, dirs, fs, filters, view, folder_id>>

\* lines 473-474: shutil.rmtree either removes the directory, or raises and leaves
\* it with the files it had not yet deleted (left); a missing directory raises
remove_entry_rmtree(done, left) ==
    /\ pc = "rm_tree"
    /\ IF ~ dirs[folder_id].exists
       THEN /\ raise("remove_entry.rmtree")
            /\ UNCHANGED <<dirs, view, folder_id>>
       ELSE IF done
       THEN /\ dirs' = [dirs EXCEPT ![folder_id] = NoDir]
            /\ return("ok")
            /\ folder_id' = 0
            /\ view' = refresh_ui(data, current_tag, current_amount_type, excluded_tags)
       ELSE /\ left \subseteq dirs[folder_id].files
            /\ dirs' = [dirs EXCEPT ![folder_id] = Dir(left)]
            /\ raise("remove_entry.rmtree")
            /\ UNCHANGED <<view, folder_id>>
    /\ UNCHANGED <<data, db, fs, filters>>

(***************************************************************************)
(* The filters (lines 241-257).                                            *)
(***************************************************************************)
filter_by_tag(tag) ==
    /\ pc = "idle"
    /\ current_tag' = tag
    /\ current_amount_type' = "All"
    /\ excluded_tags' = IF tag = "leisure" THEN {} ELSE {"leisure"}
    /\ view' = refresh_ui(data, current_tag', current_amount_type', excluded_tags')
    /\ return("ok")
    /\ folder_id' = 0
    /\ UNCHANGED <<data, disk>>

filter_by_type(amount_type) ==
    /\ pc = "idle"
    /\ current_amount_type' = amount_type
    /\ current_tag' = "All"
    /\ excluded_tags' = {}
    /\ view' = refresh_ui(data, current_tag', current_amount_type', excluded_tags')
    /\ return("ok")
    /\ folder_id' = 0
    /\ UNCHANGED <<data, disk>>

(***************************************************************************)
(* main (lines 477-484) after the process ended: MainWindow.__init__.      *)
(***************************************************************************)
main ==
    /\ pc = "crashed"
    /\ data' = load_data
    /\ current_tag' = "All"
    /\ current_amount_type' = "All"
    /\ excluded_tags' = {"leisure"}
    /\ view' = refresh_ui(data', current_tag', current_amount_type', excluded_tags')
    /\ return("ok")
    /\ folder_id' = 0
    /\ UNCHANGED disk

(***************************************************************************)
(* What the user and the environment supply.                               *)
(***************************************************************************)
Name_A == <<"A">>
Source_folder == [choice |-> "Folder", file_path |-> UserFolder]
Source_file(p) == [choice |-> "File", file_path |-> p]

\* the answers to add_entry's dialogs
Inputs(amounts, tags, sources) ==
    {[ok |-> TRUE, name |-> Name_A, amount |-> a, tag_task |-> t, amount_type |-> "math",
      choice |-> s.choice, file_path |-> s.file_path] :
        a \in amounts, t \in tags, s \in sources}

\* a cancelled dialog, an empty name, a non-positive amount
BadInputs ==
    {[ok |-> o, name |-> n, amount |-> a, tag_task |-> "work", amount_type |-> "math",
      choice |-> "Folder", file_path |-> UserFolder] :
        o \in BOOLEAN, n \in {<<>>, Name_A}, a \in {0, 1}}
    \ Inputs({1}, {"work"}, {Source_folder})

\* the environment during add_entry: the conversion tool, fitz, os.remove, the
\* image the user picks (<<>> = none), and the write that fails, if one does:
\* "write_cover", "copy", or save_data at "open" or at "write"
Envs(convs, rms, faults) ==
    [conv : convs, render : BOOLEAN, rm_ok : rms, img_path : {<<>>, UserImage},
     fault : {"none"} \cup faults]

\* shutil.rmtree raising: before it deleted anything, or at the emptied directory
Leftovers == {{}} \cup {dirs[i].files : i \in Ids}

\* the values random.randint returns in the specifications that keep the
\* collection small: both ends of its range
EdgeIds == {1, NumIds}

(***************************************************************************)
(* Spec: the whole window, with PDF and folder sources and every write     *)
(* allowed to fail.                                                        *)
(***************************************************************************)
InputsCore == Inputs({1, 2}, {"leisure", "work"}, {Source_folder, Source_file(File_pdf)})
EnvsCore == Envs({"ok"}, {TRUE}, {"write_cover", "copy", "open", "write"})

Next ==
    \/ \E inp \in InputsCore \cup BadInputs, c \in EdgeIds : add_entry_begin(inp, c)
    \/ \E c \in EdgeIds : add_entry_retry(c)
    \/ \E inp \in InputsCore, env \in EnvsCore : add_entry_finish(inp, env)
    \/ \E i \in 1..Len(view), v \in 0..2, ok \in BOOLEAN, m \in SaveModes :
          update_progress(view[i], v, ok, m)
    \/ \E i \in 1..Len(view), reply \in {"Yes", "No"} : remove_entry(view[i], reply)
    \/ \E m \in SaveModes : remove_entry_save(m)
    \/ \E done \in BOOLEAN, left \in Leftovers : remove_entry_rmtree(done, left)
    \/ \E t \in get_all_tags : filter_by_tag(t)
    \/ \E t \in get_all_types : filter_by_type(t)
    \/ main

Spec == Init /\ [][Next]_vars

(***************************************************************************)
(* SpecProgress: amounts up to MaxAmount and every value of the progress   *)
(* dialog, with folder sources; save_data may fail.                        *)
(***************************************************************************)
InputsProgress == Inputs(1..MaxAmount, {"leisure", "work"}, {Source_folder})
EnvsProgress == Envs({"ok"}, {TRUE}, {"open", "write"})

NextProgress ==
    \/ \E inp \in InputsProgress \cup BadInputs, c \in EdgeIds : add_entry_begin(inp, c)
    \/ \E c \in EdgeIds : add_entry_retry(c)
    \/ \E inp \in InputsProgress, env \in EnvsProgress : add_entry_finish(inp, env)
    \/ \E i \in 1..Len(view), v \in (-1)..(MaxAmount + 1), ok \in BOOLEAN, m \in SaveModes :
          update_progress(view[i], v, ok, m)
    \/ \E i \in 1..Len(view), reply \in {"Yes", "No"} : remove_entry(view[i], reply)
    \/ \E m \in SaveModes : remove_entry_save(m)
    \/ remove_entry_rmtree(TRUE, {})
    \/ \E t \in get_all_tags : filter_by_tag(t)
    \/ \E t \in get_all_types : filter_by_type(t)
    \/ main

SpecProgress == Init /\ [][NextProgress]_vars

(***************************************************************************)
(* SpecCover: add_entry and remove_entry over every kind of source file    *)
(* and every behaviour of the conversion tool; the writes succeed.         *)
(***************************************************************************)
InputsCover == Inputs({1}, {"work"}, {Source_file(p) : p \in UserFiles})
EnvsCover == Envs({"ok", "nonzero", "missing"}, BOOLEAN, {})

NextCover ==
    \/ \E inp \in InputsCover, c \in EdgeIds : add_entry_begin(inp, c)
    \/ \E c \in EdgeIds : add_entry_retry(c)
    \/ \E inp \in InputsCover, env \in EnvsCover : add_entry_finish(inp, env)
    \/ \E i \in 1..Len(view) : remove_entry(view[i], "Yes")
    \/ remove_entry_save("ok")
    \/ remove_entry_rmtree(TRUE, {})
    \/ main

SpecCover == Init /\ [][NextCover]_vars

(***************************************************************************)
(* SpecAlloc: add_entry and remove_entry over the whole id range, until it *)
(* is used up, with the random draws fair.  Every write of add_entry       *)
(* succeeds; shutil.rmtree may fail.                                       *)
(***************************************************************************)
InputsAlloc == Inputs(1..MaxAmount, {"leisure", "work"}, {Source_folder})
EnvsAlloc == Envs({"ok"}, {TRUE}, {})

NextAlloc ==
    \/ \E inp \in InputsAlloc, c \in Ids : add_entry_begin(inp, c)
    \/ \E c \in Ids : add_entry_retry(c)
    \/ \E inp \in InputsAlloc, env \in EnvsAlloc : add_entry_finish(inp, env)
    \/ \E i \in 1..Len(view) : remove_entry(view[i], "Yes")
    \/ remove_entry_save("ok")
    \/ \E done \in BOOLEAN, left \in Leftovers : remove_entry_rmtree(done, left)
    \/ \E t \in get_all_tags : filter_by_tag(t)
    \/ main

\* random.randint returns every value of its range again and again, and a
\* handler that can go on does
FairAlloc ==
    /\ \A c \in Ids : WF_vars(add_entry_retry(c))
    /\ WF_vars(\E inp \in InputsAlloc, env \in EnvsAlloc : add_entry_finish(inp, env))

SpecAlloc == Init /\ [][NextAlloc]_vars /\ FairAlloc

(***************************************************************************)
(* The claims.                                                             *)
(***************************************************************************)
\* the record of folder_id id in the list d
entry_of(d, id) == d[CHOOSE i \in 1..Len(d) : d[i].folder_id = id]

in_bounds(d) == \A i \in 1..Len(d) : 0 <= d[i].amount_done /\ d[i].amount_done <= d[i].amount

\* C1: every entry of the list and of the database has 0 <= amount_done <= amount
\* in every state, and an update_progress whose value is <= 0 or larger than what
\* the entry has left changes neither the list nor the database.
C1_ProgressWithinAmount ==
    /\ [](in_bounds(data) /\ in_bounds(load_data))
    /\ [][(pc = "idle" /\ <<data, db>>' # <<data, db>>) =>
            \A i \in 1..Len(view), v \in (-1)..(MaxAmount + 1), ok \in BOOLEAN, m \in SaveModes :
                LET id == view[i].folder_id
                IN (/\ id_in_use(data, id)
                    /\ (v <= 0 \/ v > entry_of(data, id).amount - entry_of(data, id).amount_done))
                   => ~ update_progress(view[i], v, ok, m)]_vars

\* C1 witness: an entry advanced in two steps up to its amount
C1_Witness ==
    /\ pc = "idle"
    /\ \E i \in 1..Len(data) : data[i].amount = 2 /\ data[i].amount_done = 2
    /\ \E i \in 1..Len(data) : data[i].amount = 2 /\ data[i].amount_done = 1

\* C2: no two records of the list, or of the database, have the same folder_id.
C2_UniqueFolderIds ==
    /\ \A i, j \in 1..Len(data) : data[i].folder_id = data[j].folder_id => i = j
    /\ \A i, j \in 1..Len(load_data) : load_data[i].folder_id = load_data[j].folder_id => i = j

\* C2 witness: as many entries as ids, the oldest holding the largest id
C2_Witness ==
    /\ pc = "idle"
    /\ Len(data) = NumIds
    /\ data[1].folder_id = NumIds

\* C3: when add_entry ends because there is no cover image (no extracted cover
\* and no image chosen), no directory of its folder_id is left on disk and the
\* list and the database are what they were.
C3_NoCoverLeavesNothing ==
    result \in {"no_cover", "add_entry.rmdir"} =>
        /\ ~ dirs[folder_id].exists
        /\ ~ id_in_use(data, folder_id)
        /\ ~ id_in_use(load_data, folder_id)

\* C4: when a step of add_entry after os.makedirs fails (writing image.jpg,
\* copying the source, save_data), the directory is gone and the database holds
\* no record of its folder_id.
C4_AllOrNothing ==
    result \in {"add_entry.write_cover", "add_entry.copy", "add_entry.save_data"} =>
        /\ ~ dirs[folder_id].exists
        /\ ~ id_in_use(load_data, folder_id)

\* C5: in every state, also inside remove_entry and after a failed rmtree, every
\* record of the database has its directory on disk.
C5_RecordHasDirectory ==
    \A i \in 1..Len(load_data) : dirs[load_data[i].folder_id].exists

\* C5 witness: rmtree failed after the record left the database: an orphan directory
C5_Witness ==
    /\ result = "remove_entry.rmtree"
    /\ dirs[folder_id].exists
    /\ ~ id_in_use(load_data, folder_id)

\* C6: whenever a handler has returned, load_data() gives the list in memory; and
\* from the save_data of remove_entry on, whether or not rmtree succeeds,
\* load_data() gives no record of the removed folder_id.
C6_LoadGivesList ==
    /\ pc = "idle" => load_data = data
    /\ (pc = "rm_tree" \/ result = "remove_entry.rmtree") => ~ id_in_use(load_data, folder_id)

\* C6 witness: a database with an advanced entry, after an entry was removed from it
C6_Witness ==
    /\ pc = "idle"
    /\ load_data = data
    /\ Len(data) = 1
    /\ data[1].amount_done = 1
    /\ \E i \in Ids : dirs[i].exists /\ ~ id_in_use(data, i)

\* C7: with tag "All" and type "All" no entry tagged "leisure" is in the grid,
\* and with tag "leisure" every entry tagged "leisure" is.
C7_LeisureOnlyOnRequest ==
    pc = "idle" =>
        /\ (current_tag = "All" /\ current_amount_type = "All")
              => \A i \in 1..Len(view) : view[i].tag_task # "leisure"
        /\ current_tag = "leisure"
              => \A i \in 1..Len(data) : data[i].tag_task = "leisure"
                    => \E j \in 1..Len(view) : view[j] = data[i]

\* C8: the user's files outside ENTRIES_DIR are all present with their contents.
C8_UserFilesUntouched == \A p \in UserFiles : fs[p] = "orig"

\* C9: no exception leaves extract_cover_image.
C9_ExtractionNeverRaises == result # "add_entry.extract_cover_image"

\* C10 as stated: the loop of add_entry always ends.
C10_AllocAlwaysEnds == (pc = "alloc") ~> (pc # "alloc")

\* C10: the loop of add_entry ends whenever the list has fewer entries than
\* random.randint has values.
C10_AllocEndsIfIdFree == (pc = "alloc" /\ Len(data) < NumIds) ~> (pc # "alloc")

\* C10 witness: the candidate collides while an id is still free
C10_Witness ==
    /\ pc = "alloc"
    /\ id_in_use(data, folder_id)
    /\ 0 < Len(data) /\ Len(data) < NumIds

====
